---- MODULE Spec2Model ----
(***************************************************************************)
(* Home Assistant incoming webhook: bearer-token verification (auth.py),   *)
(* configuration lookup (config.py) and the webhook request handler        *)
(* (main.py) sequencing outbound calls of the remote client                *)
(* (ha_integration.py) against the Home Assistant REST API.                *)
(***************************************************************************)
EXTENDS Integers, Sequences, FiniteSets, TLC

\* ------------------------------------------------------------------ bounds
\* The clock runs over 0..MaxTime (abstract time units).
MaxTime == 2
\* Time that can pass between two clock reads inside verify_jwt_token.
MaxDelay == 2
\* Magnitude of the host's local UTC offset (west, none, east).
TzShift == 2

Times == 0..MaxTime
UtcOffsets == {0 - TzShift, 0, TzShift}
Requests == {"r1", "r2"}
\* Switch ids a request can name, and switch ids the configuration can hold.
SwitchIds == {"s1", "s3"}
ConfiguredIds == {"s1", "s2"}
Keys == {"keyA", "keyB"}
\* Values of the SWITCHES setting after parsing (ids in configuration order);
\* the empty list is also what an unparsable value yields.
SwitchLists == {<<>>, <<"s2", "s1">>}

None == "None"
\* Python's None where the other values are records or dicts.
NoneRec == [none |-> TRUE]
\* The empty dict.
EmptyDict == <<>>

VARIABLES
    config,     \* AppConfig: [jwt_secret, switches]
    utcoffset,  \* local UTC offset of the host the process runs on
    clock,      \* true time (UTC epoch)
    ha,         \* remote Home Assistant: entity id -> [state, attributes]
    pc,         \* per request: position in the webhook handler
    req,        \* per request: the handler's locals switch_id, action, custom_attributes
    auth,       \* per request: whether a bearer token came and whether it verified
    calls,      \* per request: outbound calls issued, in order
    cur,        \* per request: the state set_attributes is about to write
    resp,       \* per request: HTTP response sent
    hist,       \* per request: whether it ran alone, and the switch's state before it
    lastAuth,   \* the last application of verify_jwt_token (input and result)
    boot        \* application startup (lifespan) and the remote entity registry

vars == <<config, utcoffset, clock, ha, pc, req, auth, calls, cur, resp, hist, lastAuth, boot>>

\* ------------------------------------------------------------- auth.py
\* Claim sets a token can carry: exp is optional.
Payloads ==
    {[iss |-> "client"]}
    \cup {[iss |-> "client", exp |-> e] : e \in 0..(MaxTime + 1)}

\* A bearer token: well-formed, signed with `key` and carrying `claims`; or a
\* string that is no JWT at all.
Tokens ==
    [malformed : {FALSE}, key : Keys, claims : Payloads]
    \cup {[malformed |-> TRUE]}

\* jwt.decode(token, secret, algorithms=["HS256"]) at time `now`: the payload,
\* or the exception class raised.
jwt_decode(token, secret, now) ==
    IF token.malformed THEN [raised |-> "DecodeError"]
    ELSE IF token.key # secret THEN [raised |-> "InvalidSignatureError"]
    ELSE IF "exp" \in DOMAIN token.claims /\ token.claims.exp <= now
         THEN [raised |-> "ExpiredSignatureError"]
    ELSE [raised |-> None, payload |-> token.claims]

\* datetime.utcnow().timestamp(): the naive UTC wall time read as local time.
utcnow_timestamp(now, offset) == now - offset

HTTPException(status, detail) ==
    [raised |-> "HTTPException", status_code |-> status, detail |-> detail]

\* Exception classes caught by `except jwt.InvalidTokenError`.
InvalidTokenErrors ==
    {"DecodeError", "InvalidSignatureError", "ExpiredSignatureError",
     "InvalidTokenError"}

\* The body of the try block: decode, then the function's own expiry check.
verify_try(token, secret, now1, now2, offset) ==
    LET d == jwt_decode(token, secret, now1) IN
    IF d.raised # None THEN d
    ELSE IF "exp" \in DOMAIN d.payload
            /\ utcnow_timestamp(now2, offset) > d.payload.exp
         THEN HTTPException(401, "Token expired")
    ELSE d

\* verify_except without the two catch-all clauses: only the library's expiry
\* error is translated.
verify_except_uncaught(t) ==
    IF t.raised = "ExpiredSignatureError"
    THEN HTTPException(401, "Token expired")
    ELSE t

\* The except clauses, in order.
verify_except(t) ==
    IF t.raised = None THEN t
    ELSE IF t.raised = "ExpiredSignatureError"
         THEN HTTPException(401, "Token expired")
    ELSE IF t.raised \in InvalidTokenErrors
         THEN HTTPException(401, "Invalid authentication token")
    ELSE HTTPException(401, "Authentication failed")

\* verify_jwt_token(token): [raised |-> None, payload] or an HTTPException.
\* now1 is the clock read by jwt.decode, now2 the one read by the function.
verify_jwt_token(token, secret, now1, now2, offset) ==
    verify_except(verify_try(token, secret, now1, now2, offset))

\* HTTPBearer(): no Authorization header is a 403 before the dependency runs.
NoHeader == [header |-> FALSE]

\* verify_authentication with HTTPBearer(auto_error=False): a missing header
\* is let through with an empty payload.
verify_authentication_open(credentials, secret, now1, now2, offset) ==
    IF credentials = NoHeader THEN [raised |-> None, payload |-> EmptyDict]
    ELSE verify_jwt_token(credentials, secret, now1, now2, offset)

verify_authentication(credentials, secret, now1, now2, offset) ==
    IF credentials = NoHeader THEN HTTPException(403, "Not authenticated")
    ELSE verify_jwt_token(credentials, secret, now1, now2, offset)

\* ------------------------------------------------------------ config.py
SwitchConfig(id) == [id |-> id, name |-> "Switch " \o id]

\* first_with_id with the loop ending one element early.
RECURSIVE first_with_id_short(_, _, _)
first_with_id_short(switches, switch_id, i) ==
    IF i >= Len(switches) THEN NoneRec
    ELSE IF switches[i].id = switch_id THEN switches[i]
    ELSE first_with_id_short(switches, switch_id, i + 1)

RECURSIVE first_with_id(_, _, _)
first_with_id(switches, switch_id, i) ==
    IF i > Len(switches) THEN NoneRec
    ELSE IF switches[i].id = switch_id THEN switches[i]
    ELSE first_with_id(switches, switch_id, i + 1)

\* AppConfig.get_switch_by_id: the first configured switch with that id.
get_switch_by_id(switch_id) == first_with_id(config.switches, switch_id, 1)

\* ---------------------------------------------------- ha_integration.py
get_entity_id(switch_id) == "input_boolean.webhook_" \o switch_id

EntityIds == {get_entity_id(s) : s \in ConfiguredIds}

\* dict(a).update(b)
Update(a, b) ==
    [k \in DOMAIN a \cup DOMAIN b |-> IF k \in DOMAIN b THEN b[k] ELSE a[k]]

\* datetime.now().isoformat(): the local wall time as a string.
now_isoformat == "T" \o ToString(clock + utcoffset)

\* The state of the remote system after services/input_boolean/<service>.
HaService(service, entity_id) ==
    LET new == CASE service = "turn_on" -> "on"
                 [] service = "turn_off" -> "off"
                 [] service = "toggle" ->
                        IF ha[entity_id].state = "on" THEN "off" ELSE "on"
    IN [ha EXCEPT ![entity_id].state = new]

\* The state of the remote system after POST states/<entity_id>.
HaSetState(entity_id, data) ==
    [ha EXCEPT ![entity_id] = [state |-> data.state, attributes |-> data.attributes]]

\* HomeAssistantClient.get_state on a successful response.
get_state(switch_id) ==
    LET response == ha[get_entity_id(switch_id)] IN
    [state |-> response.state, attributes |-> response.attributes]

\* merged_state with the timestamp set before the request's attributes are
\* applied, so that a caller's last_triggered_at survives.
merged_state_caller_wins(current_state, attributes) ==
    [state |-> current_state.state,
     attributes |->
        Update(Update(current_state.attributes,
                      [last_triggered_at |-> now_isoformat]), attributes)]

\* set_attributes between its state read and its state write: the body of
\* the POST built from the state just read.
merged_state(current_state, attributes) ==
    [state |-> current_state.state,
     attributes |->
        Update(Update(current_state.attributes, attributes),
               [last_triggered_at |-> now_isoformat])]

\* -------------------------------------------------------------- main.py
Actions == {"on", "off", "toggle", "status"}

\* Values of WebhookRequest.attributes (Optional[dict]).
ReqAttributes ==
    {NoneRec, EmptyDict, [source |-> "a", last_triggered_at |-> "custom"]}

\* Valid WebhookRequest bodies.
Bodies == [switch_id : SwitchIds, action : Actions, attributes : ReqAttributes]

\* custom_attributes = request.attributes or {}
custom_attributes(request) ==
    IF request.attributes = NoneRec THEN EmptyDict ELSE request.attributes

\* The handler's locals (main.py 93-95).
Locals(request) ==
    [switch_id |-> request.switch_id, action |-> request.action,
     custom_attributes |-> custom_attributes(request)]

\* http_exception_handler: the JSON error response of an HTTPException.
http_exception_handler(exc) ==
    [status_code |-> exc.status_code,
     body |-> [status |-> "error", error |-> exc.detail]]

\* WebhookResponse(status="success", ...) answered with 200.
WebhookResponse(locals, state_info) ==
    [status_code |-> 200,
     body |-> [status |-> "success", switch_id |-> locals.switch_id,
               action |-> locals.action, state |-> state_info.state,
               attributes |-> state_info.attributes]]

\* The handler's 500 with a mistyped status code.
InternalServerError_502 == http_exception_handler(HTTPException(502, "Internal server error"))

\* `except Exception` of the handler: any failure of the client is a 500.
InternalServerError == http_exception_handler(HTTPException(500, "Internal server error"))

\* The dispatch with the branches of "on" and "off" swapped.
ServiceOf_swapped(action) ==
    CASE action = "on" -> "turn_off"
      [] action = "off" -> "turn_on"
      [] action = "toggle" -> "toggle"

ServiceOf(action) ==
    CASE action = "on" -> "turn_on"
      [] action = "off" -> "turn_off"
      [] action = "toggle" -> "toggle"

\* One outbound request of _make_request and whether it succeeded.
ServiceCall(service, ok) ==
    [method |-> "POST", endpoint |-> "services/input_boolean/" \o service, ok |-> ok]
StateRead(entity_id, ok) ==
    [method |-> "GET", endpoint |-> "states/" \o entity_id, ok |-> ok]
StateWrite(entity_id, ok) ==
    [method |-> "POST", endpoint |-> "states/" \o entity_id, ok |-> ok]

\* AfterAction without the call of set_attributes.
AfterAction_no_merge(locals) == "final_read"

\* AfterAction without the test `if custom_attributes`.
AfterAction_always_merge(locals) == "merge_read"

\* Where the handler continues once the action branch is over (main.py 119-124).
AfterAction(locals) ==
    IF locals.custom_attributes # EmptyDict THEN "merge_read" ELSE "final_read"

\* Where an authenticated request on a configured switch starts (main.py 108-117).
FirstStep(locals) ==
    IF locals.action \in {"on", "off", "toggle"} THEN "action"
    ELSE AfterAction(locals)

\* History of a request that shared the remote system with another one.
NotAlone == [alone |-> FALSE]

\* The application object used without running its lifespan (as the tests'
\* TestClient(app) does).
NoLifespan ==
    [phase |-> "none", i |-> 0, step |-> None, calls |-> <<>>, results |-> <<>>,
     exists |-> {}]

InFlight(q) == pc[q] \in {"action", "merge_read", "merge_write", "final_read"}

\* No response is waiting to be delivered.
NoneDone == \A q \in Requests : pc[q] # "done"

Init ==
    /\ config \in [jwt_secret : {"keyA"},
                   switches : {[i \in 1..Len(l) |-> SwitchConfig(l[i])] : l \in SwitchLists}]
    /\ utcoffset \in UtcOffsets
    /\ clock = 0
    /\ ha = [e \in EntityIds |->
               [state |-> "off",
                attributes |-> [friendly_name |-> "Switch", source |-> "old"]]]
    /\ pc = [r \in Requests |-> "idle"]
    /\ req = [r \in Requests |-> NoneRec]
    /\ auth = [r \in Requests |-> NoneRec]
    /\ calls = [r \in Requests |-> <<>>]
    /\ cur = [r \in Requests |-> NoneRec]
    /\ resp = [r \in Requests |-> NoneRec]
    /\ hist = [r \in Requests |-> NoneRec]
    /\ lastAuth = NoneRec
    /\ boot = NoLifespan

\* Time passes.
Tick ==
    /\ NoneDone
    /\ clock < MaxTime
    /\ clock' = clock + 1
    /\ UNCHANGED <<config, utcoffset, ha, pc, req, auth, calls, cur, resp, hist, lastAuth, boot>>

\* POST /webhook, the authentication dependency (main.py 81, auth.py 67-80):
\* HTTPBearer, then verify_jwt_token on the bearer token.
Authenticate(r, credentials, delay) ==
    /\ NoneDone
    /\ pc[r] = "idle"
    /\ clock + delay <= MaxTime
    /\ LET a == verify_authentication(credentials, config.jwt_secret,
                                      clock, clock + delay, utcoffset)
       IN /\ clock' = clock + delay
          /\ IF a.raised # None
             THEN /\ resp' = [resp EXCEPT ![r] = http_exception_handler(a)]
                  /\ pc' = [pc EXCEPT ![r] = "done"]
             ELSE /\ resp' = resp
                  /\ pc' = [pc EXCEPT ![r] = "authenticated"]
          /\ auth' = [auth EXCEPT ![r] =
                        [header |-> credentials # NoHeader,
                         verified |-> credentials # NoHeader
                                      /\ verify_jwt_token(credentials, config.jwt_secret,
                                            clock, clock + delay, utcoffset).raised = None]]
    /\ UNCHANGED <<config, utcoffset, ha, req, calls, cur, hist, lastAuth, boot>>

\* The handler up to its first outbound call: the lookup of the switch in
\* the configuration (main.py 93-106).
Handle(r, request) ==
    /\ NoneDone
    /\ pc[r] = "authenticated"
    /\ LET switch_config == get_switch_by_id(request.switch_id)
           others == {q \in Requests \ {r} : InFlight(q)}
       IN /\ req' = [req EXCEPT ![r] = Locals(request)]
          /\ IF switch_config = NoneRec
             THEN /\ resp' = [resp EXCEPT ![r] =
                        http_exception_handler(HTTPException(404,
                            "Switch '" \o request.switch_id \o "' is not configured"))]
                  /\ pc' = [pc EXCEPT ![r] = "done"]
                  /\ hist' = hist
             ELSE /\ resp' = resp
                  /\ pc' = [pc EXCEPT ![r] = FirstStep(Locals(request))]
                  /\ hist' = [q \in Requests |->
                        IF q = r
                        THEN IF others = {}
                             THEN [alone |-> TRUE,
                                   pre |-> ha[get_entity_id(request.switch_id)].state]
                             ELSE NotAlone
                        ELSE IF q \in others THEN NotAlone
                        ELSE hist[q]]
    /\ UNCHANGED <<config, utcoffset, clock, ha, auth, calls, cur, lastAuth, boot>>

\* await ha_client.turn_on / turn_off / toggle (main.py 110-117).
ActionCall(r, ok, applied) ==
    /\ NoneDone
    /\ pc[r] = "action"
    /\ ok => applied
    /\ LET entity_id == get_entity_id(req[r].switch_id)
           service == ServiceOf(req[r].action)
       IN /\ calls' = [calls EXCEPT ![r] = Append(@, ServiceCall(service, ok))]
          /\ ha' = IF applied THEN HaService(service, entity_id) ELSE ha
          /\ IF ok
             THEN /\ pc' = [pc EXCEPT ![r] = AfterAction(req[r])]
                  /\ resp' = resp
             ELSE /\ pc' = [pc EXCEPT ![r] = "done"]
                  /\ resp' = [resp EXCEPT ![r] = InternalServerError]
    /\ UNCHANGED <<config, utcoffset, clock, req, auth, cur, hist, lastAuth, boot>>

\* set_attributes: current_state = await self.get_state(switch_id), then the
\* merge of the attributes (ha_integration.py 162-168).
MergeRead(r, ok) ==
    /\ NoneDone
    /\ pc[r] = "merge_read"
    /\ calls' = [calls EXCEPT ![r] = Append(@, StateRead(get_entity_id(req[r].switch_id), ok))]
    /\ IF ok
       THEN /\ cur' = [cur EXCEPT ![r] =
                    merged_state(get_state(req[r].switch_id), req[r].custom_attributes)]
            /\ pc' = [pc EXCEPT ![r] = "merge_write"]
            /\ resp' = resp
       ELSE /\ cur' = cur
            /\ pc' = [pc EXCEPT ![r] = "done"]
            /\ resp' = [resp EXCEPT ![r] = InternalServerError]
    /\ UNCHANGED <<config, utcoffset, clock, ha, req, auth, hist, lastAuth, boot>>

\* MergeWrite without the try/except around the POST: a failed write ends the
\* request with a 500.
MergeWrite_raising(r, ok, applied) ==
    /\ NoneDone
    /\ pc[r] = "merge_write"
    /\ ok => applied
    /\ LET entity_id == get_entity_id(req[r].switch_id)
       IN /\ calls' = [calls EXCEPT ![r] = Append(@, StateWrite(entity_id, ok))]
          /\ ha' = IF applied THEN HaSetState(entity_id, cur[r]) ELSE ha
    /\ cur' = [cur EXCEPT ![r] = NoneRec]
    /\ pc' = [pc EXCEPT ![r] = IF ok THEN "final_read" ELSE "done"]
    /\ resp' = [resp EXCEPT ![r] = IF ok THEN @ ELSE InternalServerError]
    /\ UNCHANGED <<config, utcoffset, clock, req, auth, hist, lastAuth, boot>>

\* set_attributes: the POST of the merged state; a failure is logged and
\* swallowed (ha_integration.py 171-182).
MergeWrite(r, ok, applied) ==
    /\ NoneDone
    /\ pc[r] = "merge_write"
    /\ ok => applied
    /\ LET entity_id == get_entity_id(req[r].switch_id)
       IN /\ calls' = [calls EXCEPT ![r] = Append(@, StateWrite(entity_id, ok))]
          /\ ha' = IF applied THEN HaSetState(entity_id, cur[r]) ELSE ha
    /\ cur' = [cur EXCEPT ![r] = NoneRec]
    /\ pc' = [pc EXCEPT ![r] = "final_read"]
    /\ UNCHANGED <<config, utcoffset, clock, req, auth, resp, hist, lastAuth, boot>>

\* state_info = await ha_client.get_state(switch_id) and the response
\* (main.py 124-140).
FinalRead(r, ok) ==
    /\ NoneDone
    /\ pc[r] = "final_read"
    /\ calls' = [calls EXCEPT ![r] = Append(@, StateRead(get_entity_id(req[r].switch_id), ok))]
    /\ resp' = [resp EXCEPT ![r] =
                    IF ok THEN WebhookResponse(req[r], get_state(req[r].switch_id))
                    ELSE InternalServerError]
    /\ pc' = [pc EXCEPT ![r] = "done"]
    /\ UNCHANGED <<config, utcoffset, clock, ha, req, auth, cur, hist, lastAuth, boot>>

\* The response is delivered and the connection closed: the request's
\* locals are gone.
Deliver(r) ==
    /\ pc[r] = "done"
    /\ pc' = [pc EXCEPT ![r] = "idle"]
    /\ req' = [req EXCEPT ![r] = NoneRec]
    /\ auth' = [auth EXCEPT ![r] = NoneRec]
    /\ calls' = [calls EXCEPT ![r] = <<>>]
    /\ cur' = [cur EXCEPT ![r] = NoneRec]
    /\ resp' = [resp EXCEPT ![r] = NoneRec]
    /\ hist' = [hist EXCEPT ![r] = NoneRec]
    /\ UNCHANGED <<config, utcoffset, clock, ha, lastAuth, boot>>

Next ==
    \/ Tick
    \/ \E r \in Requests : Deliver(r)
    \/ \E r \in Requests, credentials \in Tokens \cup {NoHeader}, delay \in 0..MaxDelay :
            Authenticate(r, credentials, delay)
    \/ \E r \in Requests, request \in Bodies : Handle(r, request)
    \/ \E r \in Requests, ok \in BOOLEAN, applied \in BOOLEAN : ActionCall(r, ok, applied)
    \/ \E r \in Requests, ok \in BOOLEAN : MergeRead(r, ok)
    \/ \E r \in Requests, ok \in BOOLEAN, applied \in BOOLEAN : MergeWrite(r, ok, applied)
    \/ \E r \in Requests, ok \in BOOLEAN : FinalRead(r, ok)

Spec == Init /\ [][Next]_vars

\* ------------------------------------------- verify_jwt_token on its own
\* One application of verify_jwt_token: jwt.decode reads the clock, `delay`
\* later the function reads it again.
VerifyToken(token, delay) ==
    /\ clock + delay <= MaxTime
    /\ clock' = clock + delay
    /\ lastAuth' = [token |-> token, now1 |-> clock, now2 |-> clock + delay,
                    result |-> verify_jwt_token(token, config.jwt_secret,
                                                clock, clock + delay, utcoffset)]
    /\ UNCHANGED <<config, utcoffset, ha, pc, req, auth, calls, cur, resp, hist, boot>>

NextAuth ==
    \/ Tick
    \/ \E token \in Tokens, delay \in 0..MaxDelay : VerifyToken(token, delay)

SpecAuth == Init /\ [][NextAuth]_vars

Verified == lastAuth # NoneRec
WellSigned == ~lastAuth.token.malformed /\ lastAuth.token.key = config.jwt_secret
HasExp == "exp" \in DOMAIN lastAuth.token.claims
Rejected401 ==
    /\ lastAuth.result.raised = "HTTPException"
    /\ lastAuth.result.status_code = 401

\* C2: every token correctly signed with the configured secret that carries
\* no exp claim, or an exp claim later than the current time (the later of
\* the two clock reads), is accepted and its decoded payload returned.
C2_ValidTokenAccepted ==
    (Verified /\ WellSigned /\ (~HasExp \/ lastAuth.token.claims.exp > lastAuth.now2))
        => /\ lastAuth.result.raised = None
           /\ lastAuth.result.payload = lastAuth.token.claims

\* C3: every correctly signed token whose exp claim is earlier than the
\* current time is rejected with status 401 and the detail "Token expired",
\* whichever of the two expiry checks sees the expiry.
C3_ExpiredDetail ==
    (Verified /\ WellSigned /\ HasExp /\ lastAuth.token.claims.exp < lastAuth.now2)
        => /\ Rejected401
           /\ lastAuth.result.detail = "Token expired"

\* C4: every failure of verify_jwt_token is an HTTPException with status
\* 401, and a malformed token or one signed with another secret never
\* yields a payload.
C4_FailuresAre401 ==
    Verified =>
        /\ lastAuth.result.raised # None => Rejected401
        /\ ~WellSigned => Rejected401

\* C4 witness: a token signed with another secret was rejected with 401.
C4_Witness ==
    /\ Verified
    /\ ~lastAuth.token.malformed
    /\ lastAuth.token.key # config.jwt_secret
    /\ Rejected401
    /\ lastAuth.result.detail = "Invalid authentication token"

\* ------------------------------------------------- the webhook's claims
Entity(r) == get_entity_id(req[r].switch_id)
Handled(r) == req[r] # NoneRec
Answered(r, status) == pc[r] = "done" /\ resp[r].status_code = status
Configured(switch_id) ==
    \E i \in DOMAIN config.switches : config.switches[i].id = switch_id
AllOk(s) == \A i \in DOMAIN s : s[i].ok
IsPrefix(a, b) == Len(a) <= Len(b) /\ \A i \in DOMAIN a : a[i] = b[i]
IsServiceCall(c) ==
    c.endpoint \in {"services/input_boolean/" \o x : x \in {"turn_on", "turn_off", "toggle"}}
IsStateRead(r, c) == c.method = "GET" /\ c.endpoint = "states/" \o Entity(r)
IsStateWrite(r, c) == c.method = "POST" /\ c.endpoint = "states/" \o Entity(r)

\* C1: a request issues outbound calls only after its bearer token passed
\* verify_jwt_token; without Authorization header it is answered 403, with a
\* token that fails verification 401, both with no outbound call.
C1_NoCallWithoutAuth ==
    \A r \in Requests :
        /\ auth[r] = NoneRec => calls[r] = <<>>
        /\ auth[r] # NoneRec =>
            /\ calls[r] # <<>> => (auth[r].header /\ auth[r].verified)
            /\ ~auth[r].header => (Answered(r, 403) /\ calls[r] = <<>>)
            /\ (auth[r].header /\ ~auth[r].verified) =>
                    (Answered(r, 401) /\ calls[r] = <<>>)

\* C1 witness: one request was rejected with 401 and no call while another,
\* verified, has issued a call.
C1_Witness ==
    \E r, q \in Requests :
        /\ auth[r] # NoneRec /\ auth[r].header /\ ~auth[r].verified
        /\ Answered(r, 401) /\ calls[r] = <<>>
        /\ auth[q] # NoneRec /\ auth[q].verified /\ calls[q] # <<>>

NotConfigured(switch_id) ==
    http_exception_handler(HTTPException(404,
        "Switch '" \o switch_id \o "' is not configured"))

\* C5: an authenticated request is answered 404 "Switch '<id>' is not
\* configured" exactly when no configured switch has its switch_id, and then
\* without any outbound call; the lookup itself issues none.
C5_UnknownSwitch404 ==
    \A r \in Requests :
        /\ pc[r] = "authenticated" => calls[r] = <<>>
        /\ Handled(r) =>
            IF Configured(req[r].switch_id)
            THEN resp[r] = NoneRec \/ resp[r].status_code # 404
            ELSE /\ pc[r] = "done"
                 /\ resp[r] = NotConfigured(req[r].switch_id)
                 /\ calls[r] = <<>>

\* C5 witness: a 404 for a switch missing from a non-empty configuration.
C5_Witness ==
    \E r \in Requests :
        /\ Handled(r) /\ Answered(r, 404)
        /\ config.switches # <<>>
        /\ auth[r].verified

\* The outbound calls of a request whose calls all succeed.
ExpectedCalls(r) ==
    (IF req[r].action = "on" THEN <<ServiceCall("turn_on", TRUE)>>
     ELSE IF req[r].action = "off" THEN <<ServiceCall("turn_off", TRUE)>>
     ELSE IF req[r].action = "toggle" THEN <<ServiceCall("toggle", TRUE)>>
     ELSE <<>>)
    \o (IF req[r].custom_attributes # EmptyDict
        THEN <<StateRead(Entity(r), TRUE), StateWrite(Entity(r), TRUE)>>
        ELSE <<>>)
    \o <<StateRead(Entity(r), TRUE)>>

\* C6: while every remote call succeeds, the calls of a request on a
\* configured switch are, in this order and once each: the service call of
\* the action (on, off, toggle only), the state read and state write of the
\* merge (non-empty attributes only), the final state read; the 200 response
\* carries the state and attributes of the final read.
C6_CallSequence ==
    \A r \in Requests :
        (Handled(r) /\ Configured(req[r].switch_id) /\ AllOk(calls[r])) =>
            /\ IsPrefix(calls[r], ExpectedCalls(r))
            /\ pc[r] = "done" =>
                /\ calls[r] = ExpectedCalls(r)
                /\ resp[r].status_code = 200
                /\ resp[r].body.state = ha[Entity(r)].state
                /\ resp[r].body.attributes = ha[Entity(r)].attributes

\* C6 witness: a 200 after the full sequence of four calls.
C6_Witness ==
    \E r \in Requests :
        /\ Handled(r) /\ Answered(r, 200)
        /\ AllOk(calls[r]) /\ Len(calls[r]) = 4
        /\ req[r].action = "toggle"

\* C7: a failed service call, merge state read or final state read is the
\* request's last outbound call and the request is answered 500
\* "Internal server error".
C7_FailureIs500 ==
    \A r \in Requests :
        \A i \in DOMAIN calls[r] :
            (~calls[r][i].ok /\ ~IsStateWrite(r, calls[r][i])) =>
                /\ i = Len(calls[r])
                /\ pc[r] = "done"
                /\ resp[r] = [status_code |-> 500,
                              body |-> [status |-> "error",
                                        error |-> "Internal server error"]]

\* C7 witness: the merge's state read failed after a successful action call.
C7_Witness ==
    \E r \in Requests :
        /\ Len(calls[r]) = 2
        /\ calls[r][1].ok /\ IsServiceCall(calls[r][1])
        /\ ~calls[r][2].ok /\ IsStateRead(r, calls[r][2])
        /\ Answered(r, 500)

ExpectedState(action, pre) ==
    CASE action = "on" -> "on"
      [] action = "off" -> "off"
      [] action = "toggle" -> IF pre = "on" THEN "off" ELSE "on"
      [] action = "status" -> pre

\* C8: a 200 response echoes switch_id and action with status "success";
\* when no other request was in flight and every call succeeded, its state
\* is "on" after on, "off" after off, the opposite of the state before the
\* request after toggle and the state before the request after status.
C8_StateMatchesAction ==
    \A r \in Requests :
        Answered(r, 200) =>
            /\ resp[r].body.status = "success"
            /\ resp[r].body.switch_id = req[r].switch_id
            /\ resp[r].body.action = req[r].action
            /\ (hist[r].alone /\ AllOk(calls[r])) =>
                    resp[r].body.state = ExpectedState(req[r].action, hist[r].pre)

\* C8 witness: a lone toggle with attributes on a switch that was on.
C8_Witness ==
    \E r \in Requests :
        /\ Answered(r, 200) /\ hist[r].alone /\ AllOk(calls[r])
        /\ req[r].action = "toggle" /\ req[r].custom_attributes # EmptyDict
        /\ hist[r].pre = "on" /\ resp[r].body.state = "off"

StatusOnly(r) == Handled(r) /\ req[r].action = "status"

\* C9: a status request never issues a service call; without attributes it
\* issues one outbound call in all, a state read, and its steps leave the
\* remote system as it was.
C9_StatusReadOnly ==
    /\ [](\A r \in Requests :
            StatusOnly(r) =>
                /\ \A i \in DOMAIN calls[r] : ~IsServiceCall(calls[r][i])
                /\ req[r].custom_attributes = EmptyDict =>
                    /\ Len(calls[r]) <= 1
                    /\ \A i \in DOMAIN calls[r] : IsStateRead(r, calls[r][i])
                    /\ (pc[r] = "done" /\ Configured(req[r].switch_id)) =>
                            Len(calls[r]) = 1)
    /\ [][\A r \in Requests :
            (StatusOnly(r) /\ req[r].custom_attributes = EmptyDict
             /\ calls'[r] # calls[r]) => ha' = ha]_vars

\* C9 witness: a status request without attributes answered 200 after one
\* state read.
C9_Witness ==
    \E r \in Requests :
        /\ StatusOnly(r) /\ req[r].custom_attributes = EmptyDict
        /\ Answered(r, 200)
        /\ Len(calls[r]) = 1 /\ IsStateRead(r, calls[r][1])

\* C10: the successful state write of an attribute merge never changes the
\* on/off value of the switch, whatever other requests did since the
\* merge's state read.
C10_NoLostUpdate ==
    [][\A r \in Requests :
        (pc[r] = "merge_write" /\ pc'[r] = "final_read"
         /\ calls'[r][Len(calls'[r])].ok) =>
            ha'[Entity(r)].state = ha[Entity(r)].state]_vars

\* The merge of request r is reading (resp. writing) in this step.
MergeReads(r) == pc[r] = "merge_read" /\ pc'[r] = "merge_write"
MergeWrites(r) == pc[r] = "merge_write" /\ pc'[r] = "final_read"
LastCallOk(r) == calls'[r][Len(calls'[r])].ok

\* C11: the merge builds, from the state it reads, a body whose state is the
\* state read and whose attributes are the attributes read, overridden key by
\* key by the request's attributes, with last_triggered_at set to the current
\* time (also when the caller supplied one); a successful write stores
\* exactly that body.
C11_MergedAttributes ==
    [][\A r \in Requests :
        /\ MergeReads(r) =>
            LET read == ha[Entity(r)]
                asked == req[r].custom_attributes
                body == cur'[r]
            IN /\ body.state = read.state
               /\ DOMAIN body.attributes =
                    DOMAIN read.attributes \cup DOMAIN asked \cup {"last_triggered_at"}
               /\ \A k \in DOMAIN body.attributes :
                    body.attributes[k] =
                        IF k = "last_triggered_at"
                        THEN "T" \o ToString(clock + utcoffset)
                        ELSE IF k \in DOMAIN asked THEN asked[k]
                        ELSE read.attributes[k]
        /\ (MergeWrites(r) /\ LastCallOk(r)) =>
            /\ ha'[Entity(r)].state = cur[r].state
            /\ ha'[Entity(r)].attributes = cur[r].attributes]_vars

\* C11 witness: a merge has written: source overridden by the request's value,
\* friendly_name kept, the caller's last_triggered_at replaced.
C11_Witness ==
    \E r \in Requests :
        /\ pc[r] = "final_read"
        /\ calls[r] # <<>> /\ calls[r][Len(calls[r])].ok
        /\ IsStateWrite(r, calls[r][Len(calls[r])])
        /\ req[r].custom_attributes.last_triggered_at = "custom"
        /\ ha[Entity(r)].attributes.source = "a"
        /\ ha[Entity(r)].attributes.friendly_name = "Switch"
        /\ ha[Entity(r)].attributes.last_triggered_at # "custom"

\* The calls of request r up to its final read all succeeded, except the
\* merge's state write, which failed.
OnlyWriteFailed(r) ==
    /\ \E i \in DOMAIN calls[r] : IsStateWrite(r, calls[r][i]) /\ ~calls[r][i].ok
    /\ \A i \in DOMAIN calls[r] : IsStateWrite(r, calls[r][i]) \/ calls[r][i].ok

\* The attributes the request asked for are not on the remote entity.
RequestedAbsent(r) ==
    \A k \in DOMAIN req[r].custom_attributes :
        \/ k \notin DOMAIN ha[Entity(r)].attributes
        \/ ha[Entity(r)].attributes[k] # req[r].custom_attributes[k]

\* C12 as stated: a request whose merge write failed while its other calls
\* succeeded is answered 200 "success", and the attributes it asked for are
\* absent from the remote entity.
C12_WriteFailureAbsent ==
    \A r \in Requests :
        (pc[r] = "done" /\ OnlyWriteFailed(r)) =>
            /\ resp[r].status_code = 200
            /\ resp[r].body.status = "success"
            /\ RequestedAbsent(r)

\* C12 amended: a failed merge write is swallowed: the request goes on to the
\* final state read and, when its other calls succeed, is answered 200
\* "success" with what that read returns; the failed write leaves the remote
\* entity as it was or, when the remote applied it all the same, sets it to
\* the merged state; a failed merge state read ends the request with a 500.
C12_WriteFailureSwallowed ==
    /\ [](\A r \in Requests :
            /\ \A i \in DOMAIN calls[r] :
                (IsStateWrite(r, calls[r][i]) /\ ~calls[r][i].ok) =>
                    /\ pc[r] \in {"final_read", "done"}
                    /\ pc[r] = "done" =>
                        /\ Len(calls[r]) = i + 1
                        /\ IsStateRead(r, calls[r][i + 1])
            /\ (pc[r] = "done" /\ OnlyWriteFailed(r)) =>
                /\ resp[r].status_code = 200
                /\ resp[r].body.status = "success"
                /\ resp[r].body.state = ha[Entity(r)].state
                /\ resp[r].body.attributes = ha[Entity(r)].attributes
            /\ (pc[r] = "done" /\ calls[r] # <<>>
                /\ IsStateRead(r, calls[r][Len(calls[r])])
                /\ ~calls[r][Len(calls[r])].ok) => resp[r].status_code = 500)
    /\ [][\A r \in Requests :
            (MergeWrites(r) /\ ~LastCallOk(r)) =>
                \/ ha' = ha
                \/ ha' = [ha EXCEPT ![Entity(r)] =
                            [state |-> cur[r].state, attributes |-> cur[r].attributes]]]_vars

\* C12 witness: a 200 "success" after a failed merge write that the remote
\* did not apply: the entity still has its old source attribute.
C12_Witness ==
    \E r \in Requests :
        /\ Answered(r, 200) /\ OnlyWriteFailed(r)
        /\ resp[r].body.status = "success"
        /\ req[r].custom_attributes # EmptyDict
        /\ ha[Entity(r)].attributes.source = "old"

\* ------------------------------------------ startup: lifespan (main.py)
\* validate_config requires a JWT secret of at least this many characters.
MinSecretLen == 32

\* Values of JWT_SECRET: unset, one character short, just long enough.
Secrets ==
    {"", "0123456789abcdef0123456789abcde", "0123456789abcdef0123456789abcdef"}

\* Values of SWITCHES at startup: none, one, two, a duplicated id.
StartupSwitchLists == {<<>>, <<"s1">>, <<"s2", "s1">>, <<"s1", "s1">>}

switch_ids == [i \in DOMAIN config.switches |-> config.switches[i].id]

\* validate_config with the length test off by one.
validate_config_off_by_one ==
    IF config.jwt_secret = "" \/ Len(config.jwt_secret) <= MinSecretLen THEN FALSE
    ELSE IF config.switches = <<>> THEN FALSE
    ELSE IF Len(switch_ids) # Cardinality({switch_ids[i] : i \in DOMAIN switch_ids})
         THEN FALSE
    ELSE TRUE

\* AppConfig.validate_config
validate_config ==
    IF config.jwt_secret = "" \/ Len(config.jwt_secret) < MinSecretLen THEN FALSE
    ELSE IF config.switches = <<>> THEN FALSE
    ELSE IF Len(switch_ids) # Cardinality({switch_ids[i] : i \in DOMAIN switch_ids})
         THEN FALSE
    ELSE TRUE

\* POST services/input_boolean/create with name, icon and initial.
CreateCall(ok) ==
    [method |-> "POST", endpoint |-> "services/input_boolean/create", ok |-> ok]

\* The entity id the remote gives a created helper: the request names none, so
\* the remote picks it, after the naming convention or after the switch's name.
CreatedIds(switch) ==
    {get_entity_id(switch.id), "input_boolean.switch_" \o switch.id}

RemoteIds == UNION {CreatedIds(SwitchConfig(id)) : id \in ConfiguredIds}

InitStartup ==
    /\ config \in [jwt_secret : Secrets,
                   switches : {[i \in 1..Len(l) |-> SwitchConfig(l[i])] :
                                    l \in StartupSwitchLists}]
    /\ utcoffset \in UtcOffsets
    /\ clock = 0
    /\ ha = [e \in EntityIds |->
               [state |-> "off",
                attributes |-> [friendly_name |-> "Switch", source |-> "old"]]]
    /\ pc = [r \in Requests |-> "idle"]
    /\ req = [r \in Requests |-> NoneRec]
    /\ auth = [r \in Requests |-> NoneRec]
    /\ calls = [r \in Requests |-> <<>>]
    /\ cur = [r \in Requests |-> NoneRec]
    /\ resp = [r \in Requests |-> NoneRec]
    /\ hist = [r \in Requests |-> NoneRec]
    /\ lastAuth = NoneRec
    /\ \E e \in SUBSET EntityIds :
         boot = [phase |-> "startup", i |-> 0, step |-> None, calls |-> <<>>,
                 results |-> <<>>, exists |-> e]

\* lifespan: validate the configuration, abort or go on to the switches
\* (main.py 29-39).
Validate ==
    /\ boot.phase = "startup"
    /\ boot' = IF validate_config
               THEN [boot EXCEPT !.phase = "initializing", !.i = 1, !.step = "check"]
               ELSE [boot EXCEPT !.phase = "aborted"]
    /\ UNCHANGED <<config, utcoffset, clock, ha, pc, req, auth, calls, cur, resp, hist, lastAuth>>

\* initialize_switches after ensure_switch_exists returned for switch i: the
\* next switch, or "ready to receive requests" (ha_integration.py 188-194,
\* main.py 44).
Ensured(b, result) ==
    [b EXCEPT !.results = Append(@, result),
              !.i = @ + 1,
              !.step = IF b.i = Len(config.switches) THEN None ELSE "check",
              !.phase = IF b.i = Len(config.switches) THEN "ready" ELSE "initializing"]

\* ensure_switch_exists: GET states/<entity_id> (ha_integration.py 65-71).
EnsureCheck(ok) ==
    /\ boot.phase = "initializing" /\ boot.step = "check"
    /\ LET switch == config.switches[boot.i]
           entity_id == get_entity_id(switch.id)
           b == [boot EXCEPT !.calls = Append(@, StateRead(entity_id, ok))]
       IN /\ ok => entity_id \in boot.exists
          /\ boot' = IF ok
                     THEN Ensured(b, [id |-> switch.id, result |-> TRUE,
                                      existed |-> TRUE, create |-> "none"])
                     ELSE [b EXCEPT !.step = "create"]
    /\ UNCHANGED <<config, utcoffset, clock, ha, pc, req, auth, calls, cur, resp, hist, lastAuth>>

\* ensure_switch_exists: the create call after a failed GET
\* (ha_integration.py 72-95).
EnsureCreate(ok, applied, created) ==
    /\ boot.phase = "initializing" /\ boot.step = "create"
    /\ ok => applied
    /\ LET switch == config.switches[boot.i]
           b == [boot EXCEPT !.calls = Append(@, CreateCall(ok)),
                             !.exists = IF applied THEN @ \cup {created} ELSE @]
       IN /\ created \in CreatedIds(switch)
          /\ boot' = Ensured(b, [id |-> switch.id, result |-> ok,
                                 existed |-> get_entity_id(switch.id) \in boot.exists,
                                 create |-> IF ok THEN "ok" ELSE "failed"])
    /\ UNCHANGED <<config, utcoffset, clock, ha, pc, req, auth, calls, cur, resp, hist, lastAuth>>

NextStartup ==
    \/ Validate
    \/ \E ok \in BOOLEAN : EnsureCheck(ok)
    \/ \E ok \in BOOLEAN, applied \in BOOLEAN, created \in RemoteIds :
            EnsureCreate(ok, applied, created)

SpecStartup == InitStartup /\ [][NextStartup]_vars

\* The configuration is valid: secret of 32 characters or more, at least one
\* switch, no id twice.
ValidConfig ==
    /\ Len(config.jwt_secret) >= 32
    /\ Len(config.switches) >= 1
    /\ \A i, j \in DOMAIN config.switches :
            i # j => config.switches[i].id # config.switches[j].id

\* C13: startup ends "ready" exactly when the configuration is valid and
\* aborts otherwise, before any outbound call; with a valid configuration
\* every step of the switch initialization, failed or not, has a successor,
\* and each switch takes one or two calls, so no remote failure keeps the
\* application from getting ready.
C13_ReadyIffValid ==
    /\ boot.phase \in {"initializing", "ready"} => ValidConfig
    /\ boot.phase = "aborted" => (~ValidConfig /\ boot.calls = <<>>)
    /\ boot.phase = "startup" => boot.calls = <<>>
    /\ boot.phase = "initializing" =>
        /\ ENABLED NextStartup
        /\ boot.i \in 1..Len(config.switches)
        /\ Len(boot.results) = boot.i - 1
        /\ Len(boot.calls) <= 2 * boot.i
    /\ boot.phase = "ready" => Len(boot.results) = Len(config.switches)

\* C13 witness: ready although every call of the initialization failed.
C13_Witness ==
    /\ boot.phase = "ready"
    /\ Len(boot.calls) = 4
    /\ \A i \in DOMAIN boot.calls : ~boot.calls[i].ok

\* C14: ensure_switch_exists runs once per configured switch, in order; it
\* issues the create call only when the entity does not exist, returns True
\* exactly when input_boolean.webhook_<id> exists or was created (so that a
\* state read for the switch then succeeds), and False only when the create
\* call failed.
C14_EnsureSwitchExists ==
    /\ boot.phase = "ready" => Len(boot.results) = Len(config.switches)
    /\ \A k \in DOMAIN boot.results :
        LET res == boot.results[k] IN
        /\ res.id = config.switches[k].id
        /\ res.create # "none" => ~res.existed
        /\ res.result <=> get_entity_id(res.id) \in boot.exists
        /\ ~res.result => res.create = "failed"

====
